---- MODULE Spec2Model ----
(***************************************************************************)
(* OCRify: the queue / statistics aggregator and the file lifecycle        *)
(* tracker (server/database.js) as driven by the HTTP handlers of          *)
(* server/server.js.                                                       *)
(*                                                                         *)
(* The sqlite3 Database object is used in its default (parallel) mode: a   *)
(* statement handed to db.run / db.get is queued and the queued statements *)
(* are executed one at a time, atomically, in no guaranteed order.  A      *)
(* statement's callback runs right after the statement, so one action      *)
(* models "the statement executes and its callback runs".                  *)
(*                                                                         *)
(* Four statements write columns that no other statement and no callback   *)
(* reads (incrementFileCount, incrementUserCount, updateUserExtractionStart *)
(* and the UPDATE of ai_file_name).  They commute with every other step,    *)
(* so they are scheduled first: while one of them is queued, nothing else   *)
(* runs (Settled).  The states in which none of them is queued are the same *)
(* as without that priority.                                               *)
(*                                                                         *)
(* A queue position 'user' + n is modelled by the number n, a timestamp    *)
(* datetime('now') by a clock value in whole seconds.  Statements take no  *)
(* time at that resolution: the clock advances while an OCR runs.          *)
(***************************************************************************)
EXTENDS Integers, Sequences, FiniteSets, Bags, TLC

\* ---------------------------------------------------------------- bounds
\* A run is bounded by its load: the session requests, the uploaded files and
\* the helper calls it holds plus the faults of the environment it suffers
\* (statements the storage layer rejects, output files that cannot be written).
\* load of a run of SpecSession
MaxSessions == 3
\* load of a run of Spec
MaxFiles == 2
\* queue entries that exist when a run of Spec starts
MaxEntries == 1
\* files of one bulk upload
MaxBatch == 2
\* the clock stops at MaxTime
MaxTime == 1
\* length of the short strings given to the functions of aiNaming.js
MaxChars == 3

\* ------------------------------------------------------------- constants
\* SQL NULL of a column that has no default (dbt3_file end timestamp, time)
Null == -1
\* a request body without userPosition
NoPos == 0

\* the queue positions a client may send: those created and one never created
Positions == 1..(MaxEntries + 1)
\* what Tesseract.recognize reports: data.text with words in it, data.text of
\* white space only, data.text = '', or an exception
Outcomes == {"text", "blank", "empty", "error"}

VARIABLES
    now,             \* datetime('now'), in seconds
    dbt1_developer,  \* the single developer row: aggregate counters
    dbt2_user,       \* queue position -> QueueEntry row
    dbt3_file,       \* sequence of FileRecord rows, id = index
    pending,         \* bag of statements handed to the database, not yet run
    reqs,            \* sequence of HTTP requests and where each one stands
    faults,          \* number of faults of the environment so far
    endCalls,        \* per position: outcomes passed to updateUserExtractionEnd[Bulk]
    endLost,         \* per position: outcomes of those calls whose UPDATE the storage rejected
    ocr,             \* file id -> what Tesseract.recognize reported for the file
    calls            \* the calls of the functions of aiNaming.js, with their results

vars == <<now, dbt1_developer, dbt2_user, dbt3_file, pending, reqs, faults, endCalls,
          endLost, ocr, calls>>

\* the database, the requests and what is recorded about them
served == <<now, dbt1_developer, dbt2_user, dbt3_file, pending, reqs, faults, endCalls,
            endLost, ocr>>

\* ------------------------------------------------------------ statements
Stmt(op, req, pos, fid, a, b, lang, state) ==
    [op |-> op, req |-> req, pos |-> pos, fid |-> fid, a |-> a, b |-> b,
     lang |-> lang, state |-> state, name |-> ""]

Send(bag, s) == bag (+) SetToBag({s})

SideOps == {"incrementFileCount", "incrementUserCount",
            "updateUserExtractionStart", "setAiFileName"}

\* no statement of SideOps is queued
Settled == \A s \in BagToSet(pending) : s.op \notin SideOps

Taken(s) == pending (-) SetToBag({s})

Queued(op) == {s \in BagToSet(pending) : s.op = op}

\* ------------------------------------------------------------------ rows
NewUser ==
    [total_files_uploaded |-> 0, total_files_treated |-> 0,
     total_files_not_treated |-> 0, extraction_start_timestamp |-> Null,
     extraction_end_timestamp |-> Null, total_processing_time |-> 0]

NewFile(pos) ==
    [user_queue_position |-> pos, ai_file_name |-> "processing",
     detected_language |-> "", extraction_start_timestamp |-> now,
     extraction_end_timestamp |-> Null, file_processing_time |-> Null,
     extraction_state |-> "processing"]

\* files: req.file / req.files.length; left: files the bulk loop has not begun
Request(kind, pc, pos, files, status) ==
    [kind |-> kind, pc |-> pc, pos |-> pos, fid |-> 0, files |-> files,
     left |-> IF pc = "addFile" THEN files - 1 ELSE 0,
     sc |-> 0, fc |-> 0, status |-> status]

Zero == [s |-> 0, f |-> 0]

RECURSIVE FilesOf(_)
FilesOf(rs) == IF rs = << >> THEN 0 ELSE Head(rs).files + FilesOf(Tail(rs))

Sessions == {i \in DOMAIN reqs : reqs[i].kind = "session"}

\* calls of updateFileAfterOCR with a file id that addFile never returned
Completions == {i \in DOMAIN reqs : reqs[i].kind = "completion"}

Load == Cardinality(Sessions) + Cardinality(Completions) + FilesOf(reqs) + faults

\* the database after k session requests have run one after the other
Created(k) ==
    /\ now = 0
    /\ dbt1_developer = [total_number_of_users |-> k, total_files_uploaded |-> 0]
    /\ dbt2_user = [p \in 1..k |-> NewUser]
    /\ dbt3_file = << >>
    /\ pending = EmptyBag
    /\ reqs = << >>
    /\ faults = 0
    /\ endCalls = [p \in Positions |-> Zero]
    /\ endLost = [p \in Positions |-> Zero]
    /\ ocr = << >>
    /\ calls = << >>

\* initializeTables: empty tables and the default developer row
Init == Created(0)

InitUpload == Created(MaxEntries)

\* ------------------------------------------------- database.js: the SQL
\* getNextUserPosition: 'user' + (row.count + 1), row.count = COUNT(*) of dbt2_user
NextPosition(count) == count + 1

UserCount == Cardinality(DOMAIN dbt2_user)

\* createUser: INSERT INTO dbt2_user (user_queue_position); the column is UNIQUE
InsertUser(pos) == [p \in DOMAIN dbt2_user \cup {pos} |->
                        IF p = pos THEN NewUser ELSE dbt2_user[p]]

\* the UPDATE without its WHERE clause: every row is set
UpdateUserEveryRow(pos, row) == [p \in DOMAIN dbt2_user |-> row]

\* UPDATE dbt2_user SET ... WHERE user_queue_position = pos: no row, no change
UpdateUser(pos, row) ==
    IF pos \in DOMAIN dbt2_user THEN [dbt2_user EXCEPT ![pos] = row] ELSE dbt2_user

UserRow(pos) == IF pos \in DOMAIN dbt2_user THEN dbt2_user[pos] ELSE NewUser

\* updateUserStats
StatsRow(row) == [row EXCEPT !.total_files_uploaded = @ + 1]

\* updateUserExtractionStart
ExtractionStartRow(row) == [row EXCEPT !.extraction_start_timestamp = now]

\* the UPDATE if it stored the counts it was passed instead of adding them
ExtractionEndRowOverwrite(row, treated, notTreated) ==
    [row EXCEPT !.extraction_end_timestamp = now,
                !.total_files_treated = treated,
                !.total_files_not_treated = notTreated]

\* updateUserExtractionEnd / updateUserExtractionEndBulk: the first UPDATE
ExtractionEndRow(row, treated, notTreated) ==
    [row EXCEPT !.extraction_end_timestamp = now,
                !.total_files_treated = @ + treated,
                !.total_files_not_treated = @ + notTreated]

\* the UPDATE if it left file_processing_time out of its SET list
AfterOCRRowWithoutTime(row, lang, state) ==
    [row EXCEPT !.detected_language = lang,
                !.extraction_end_timestamp = now,
                !.extraction_state = state]

\* updateFileAfterOCR: one UPDATE sets language, end, processing time, state
AfterOCRRow(row, lang, state) ==
    [row EXCEPT !.detected_language = lang,
                !.extraction_end_timestamp = now,
                !.file_processing_time = now - row.extraction_start_timestamp,
                !.extraction_state = state]

\* UPDATE dbt3_file SET ai_file_name = ? WHERE id = ?
AiNameRow(row, name) == [row EXCEPT !.ai_file_name = name]

\* UPDATE dbt3_file SET ... WHERE id = fid: no row, no change
UpdateFile(fid, row) ==
    IF fid \in DOMAIN dbt3_file THEN [dbt3_file EXCEPT ![fid] = row] ELSE dbt3_file

FileRow(fid) == IF fid \in DOMAIN dbt3_file THEN dbt3_file[fid] ELSE NewFile(NoPos)

RECURSIVE SumTimes(_, _)
SumTimes(files, pos) ==
    IF files = << >> THEN 0
    ELSE (IF /\ Head(files).user_queue_position = pos
             /\ Head(files).extraction_state = "success"
          THEN Head(files).file_processing_time ELSE 0)
         + SumTimes(Tail(files), pos)

\* updateUserTotalProcessingTime: SELECT COALESCE(SUM(file_processing_time), 0)
\* ... WHERE user_queue_position = ? AND extraction_state = 'success'
SumProcessingTime(pos) == SumTimes(dbt3_file, pos)

\* the UPDATE if it added the sum it was passed to the stored total
TotalRowIncremental(row, total) ==
    [row EXCEPT !.total_processing_time = @ + total]

\* updateUserTotalProcessingTime: UPDATE dbt2_user SET total_processing_time = ?
TotalRow(row, total) == [row EXCEPT !.total_processing_time = total]

\* incrementFileCount / incrementUserCount
FileCountRow(row) == [row EXCEPT !.total_files_uploaded = @ + 1]

UserCountRow(row) == [row EXCEPT !.total_number_of_users = @ + 1]

AddEnd(tally, p, s, f) ==
    IF p \in Positions THEN [tally EXCEPT ![p] = [s |-> @.s + s, f |-> @.f + f]] ELSE tally

\* --------------------------------------------- POST /api/get-user-session
StartSession ==
    /\ Settled
    /\ Load < MaxSessions
    /\ reqs' = Append(reqs, Request("session", "count", NoPos, 0, 0))
    /\ pending' = Send(pending, Stmt("getNextUserPosition", Len(reqs) + 1, NoPos, 0, 0, 0, "", ""))
    /\ UNCHANGED <<now, dbt1_developer, dbt2_user, dbt3_file, faults, endCalls, endLost, ocr, calls>>

\* SELECT COUNT(*) runs; the callback is handed the token and calls createUser
ExecGetNextUserPosition ==
    /\ Settled
    /\ \E s \in Queued("getNextUserPosition") :
        LET nextPosition == NextPosition(UserCount) IN
        /\ reqs' = [reqs EXCEPT ![s.req].pos = nextPosition, ![s.req].pc = "insert"]
        /\ pending' = Send(Taken(s), Stmt("createUser", s.req, nextPosition, 0, 0, 0, "", ""))
        /\ UNCHANGED <<now, dbt1_developer, dbt2_user, dbt3_file, faults, endCalls, endLost, ocr, calls>>

\* the INSERT if the column were not UNIQUE: a second row with the token
ExecCreateUserWithoutUnique ==
    /\ Settled
    /\ \E s \in Queued("createUser") :
        /\ dbt2_user' = InsertUser(s.pos)
        /\ reqs' = [reqs EXCEPT ![s.req].pc = "done", ![s.req].status = 200]
        /\ pending' = Send(Taken(s), Stmt("incrementUserCount", 0, NoPos, 0, 0, 0, "", ""))
        /\ UNCHANGED <<now, dbt1_developer, dbt3_file, faults, endCalls, endLost, ocr, calls>>

\* INSERT runs; UNIQUE(user_queue_position) rejects a token already stored
ExecCreateUser ==
    /\ Settled
    /\ \E s \in Queued("createUser") :
        IF s.pos \in DOMAIN dbt2_user
        THEN /\ reqs' = [reqs EXCEPT ![s.req].pc = "done", ![s.req].status = 500]
             /\ pending' = Taken(s)
             /\ UNCHANGED <<now, dbt1_developer, dbt2_user, dbt3_file, faults, endCalls, endLost, ocr, calls>>
        ELSE /\ dbt2_user' = InsertUser(s.pos)
             /\ reqs' = [reqs EXCEPT ![s.req].pc = "done", ![s.req].status = 200]
             /\ pending' = Send(Taken(s), Stmt("incrementUserCount", 0, NoPos, 0, 0, 0, "", ""))
             /\ UNCHANGED <<now, dbt1_developer, dbt3_file, faults, endCalls, endLost, ocr, calls>>

ExecIncrementUserCount ==
    \E s \in Queued("incrementUserCount") :
        /\ dbt1_developer' = UserCountRow(dbt1_developer)
        /\ pending' = Taken(s)
        /\ UNCHANGED <<now, dbt2_user, dbt3_file, reqs, faults, endCalls, endLost, ocr, calls>>

\* -------------------------------- POST /api/upload, POST /api/upload-bulk
Uploads == {i \in DOMAIN reqs : reqs[i].kind \in {"upload", "bulk"}}

S0(op, pos) == Stmt(op, 0, pos, 0, 0, 0, "", "")

AddFileStmt(r, pos) == Stmt("addFile", r, pos, 0, 0, 0, "", "")

AfterOCRStmt(fid, lang, state) == Stmt("updateFileAfterOCR", 0, NoPos, fid, 0, 0, lang, state)

EndStmt(pos, success) ==
    Stmt("updateUserExtractionEnd", 0, pos, 0,
         IF success THEN 1 ELSE 0, IF success THEN 0 ELSE 1, "", "")

EndBulkStmt(pos, successCount, failCount) ==
    Stmt("updateUserExtractionEndBulk", 0, pos, 0, successCount, failCount, "", "")

\* const detectedLanguage = data.text ? 'eng' : 'unknown': only '' is falsy
DetectedLanguage(outcome) == IF outcome = "empty" THEN "unknown" ELSE "eng"

\* generateAIFileName: the empty_document name when the text is empty or
\* trims to nothing, else a name synthesized from the text
GenerateAIFileName(outcome) ==
    IF outcome \in {"empty", "blank"} THEN "empty_document" ELSE "synthesized"

\* db.run(`UPDATE dbt3_file SET ai_file_name = ? WHERE id = ?`, [aiFileName, fileId])
AiNameStmt(fid, name) ==
    [Stmt("setAiFileName", 0, NoPos, fid, 0, 0, "", "") EXCEPT !.name = name]

\* the same handler without the check of userPosition
StartUploadUnchecked(pos) ==
    /\ Settled
    /\ Load + 1 <= MaxFiles
    /\ reqs' = Append(reqs, Request("upload", "addFile", pos, 1, 0))
    /\ pending' = Send(pending, AddFileStmt(Len(reqs) + 1, pos))
    /\ UNCHANGED <<now, dbt1_developer, dbt2_user, dbt3_file, faults, endCalls, endLost, ocr, calls>>

\* /api/upload: a request without userPosition is answered 400 before any
\* database call; otherwise the file record is added
StartUpload(pos) ==
    /\ Settled
    /\ Load + 1 <= MaxFiles
    /\ IF pos = NoPos
       THEN /\ reqs' = Append(reqs, Request("upload", "done", NoPos, 1, 400))
            /\ UNCHANGED pending
       ELSE /\ reqs' = Append(reqs, Request("upload", "addFile", pos, 1, 0))
            /\ pending' = Send(pending, AddFileStmt(Len(reqs) + 1, pos))
    /\ UNCHANGED <<now, dbt1_developer, dbt2_user, dbt3_file, faults, endCalls, endLost, ocr, calls>>

\* /api/upload-bulk with n files: validation, updateUserExtractionStart, then
\* the first iteration of the loop up to its await
StartBulk(pos, n) ==
    /\ Settled
    /\ Load + n <= MaxFiles
    /\ IF pos = NoPos
       THEN /\ reqs' = Append(reqs, Request("bulk", "done", NoPos, n, 400))
            /\ UNCHANGED pending
       ELSE /\ reqs' = Append(reqs, Request("bulk", "addFile", pos, n, 0))
            /\ pending' = Send(Send(pending, S0("updateUserExtractionStart", pos)),
                               AddFileStmt(Len(reqs) + 1, pos))
    /\ UNCHANGED <<now, dbt1_developer, dbt2_user, dbt3_file, faults, endCalls, endLost, ocr, calls>>

\* the loop if a failed file ended it: the code after the loop runs at once
BulkContinueAbort(r, sc, fc, bag) ==
    IF reqs[r].left > 0 /\ fc = reqs[r].fc
    THEN /\ reqs' = [reqs EXCEPT ![r].pc = "addFile", ![r].left = @ - 1,
                                 ![r].sc = sc, ![r].fc = fc]
         /\ pending' = Send(bag, AddFileStmt(r, reqs[r].pos))
         /\ UNCHANGED <<endCalls>>
    ELSE /\ reqs' = [reqs EXCEPT ![r].pc = "done", ![r].status = 200,
                                 ![r].sc = sc, ![r].fc = fc]
         /\ pending' = Send(bag, EndBulkStmt(reqs[r].pos, sc, fc))
         /\ endCalls' = AddEnd(endCalls, reqs[r].pos, sc, fc)

\* the bulk loop after one file's result was pushed (sc, fc count the results):
\* the next iteration up to its await, or the code after the loop
BulkContinue(r, sc, fc, bag) ==
    IF reqs[r].left > 0
    THEN /\ reqs' = [reqs EXCEPT ![r].pc = "addFile", ![r].left = @ - 1,
                                 ![r].sc = sc, ![r].fc = fc]
         /\ pending' = Send(bag, AddFileStmt(r, reqs[r].pos))
         /\ UNCHANGED <<endCalls>>
    ELSE /\ reqs' = [reqs EXCEPT ![r].pc = "done", ![r].status = 200,
                                 ![r].sc = sc, ![r].fc = fc]
         /\ pending' = Send(bag, EndBulkStmt(reqs[r].pos, sc, fc))
         /\ endCalls' = AddEnd(endCalls, reqs[r].pos, sc, fc)

\* addFile's INSERT runs (the FOREIGN KEY clause is not enforced by sqlite
\* unless PRAGMA foreign_keys is set, which the code never does) and its
\* callback issues the statistics statements and starts the OCR
ExecAddFile ==
    /\ Settled
    /\ \E s \in Queued("addFile") :
        LET r == s.req
            fileId == Len(dbt3_file) + 1
            stats == Send(Send(Taken(s), S0("updateUserStats", s.pos)),
                          S0("incrementFileCount", NoPos))
        IN
        /\ dbt3_file' = Append(dbt3_file, NewFile(s.pos))
        /\ reqs' = [reqs EXCEPT ![r].pc = "ocr", ![r].fid = fileId]
        /\ pending' = IF reqs[r].kind = "upload"
                      THEN Send(stats, S0("updateUserExtractionStart", s.pos))
                      ELSE stats
        /\ UNCHANGED <<now, dbt1_developer, dbt2_user, faults, endCalls, endLost, ocr, calls>>

\* the output file cannot be written: a fault of the environment.  When
\* recognize threw, no file is written and writeOk is not looked at.
\* Tesseract.recognize took d seconds
Elapse(d) == now + d <= MaxTime /\ now' = now + d

WriteFault(outcome, writeOk) ==
    IF outcome # "error" /\ ~writeOk
    THEN Load < MaxFiles /\ faults' = faults + 1
    ELSE writeOk /\ faults' = faults

\* /api/upload: Tesseract.recognize settles and the rest of the callback runs.
\* outcome "error": recognize threw.  writeOk = FALSE: writing the output file
\* (or unlinking the upload) threw after the success statements were issued.
UploadOcrDone(r, outcome, writeOk, d) ==
    /\ Settled
    /\ reqs[r].kind = "upload" /\ reqs[r].pc = "ocr"
    /\ LET pos == reqs[r].pos
           fid == reqs[r].fid
           ok == Send(Send(Send(pending,
                      AfterOCRStmt(fid, DetectedLanguage(outcome), "success")),
                      AiNameStmt(fid, GenerateAIFileName(outcome))),
                      EndStmt(pos, TRUE))
           failed(bag) == Send(Send(bag, AfterOCRStmt(fid, "unknown", "failed")),
                               EndStmt(pos, FALSE))
       IN
       IF outcome = "error"
       THEN /\ pending' = failed(pending)
            /\ endCalls' = AddEnd(endCalls, pos, 0, 1)
            /\ reqs' = [reqs EXCEPT ![r].pc = "done", ![r].status = 500]
       ELSE IF writeOk
       THEN /\ pending' = ok
            /\ endCalls' = AddEnd(endCalls, pos, 1, 0)
            /\ reqs' = [reqs EXCEPT ![r].pc = "done", ![r].status = 200]
       ELSE /\ pending' = failed(ok)
            /\ endCalls' = AddEnd(endCalls, pos, 1, 1)
            /\ reqs' = [reqs EXCEPT ![r].pc = "done", ![r].status = 500]
    /\ WriteFault(outcome, writeOk)
    /\ Elapse(d)
    /\ UNCHANGED <<dbt1_developer, dbt2_user, dbt3_file, endLost>>
    /\ ocr' = ocr @@ (reqs[r].fid :> outcome)
    /\ UNCHANGED calls

\* /api/upload-bulk: the same for the current file of the batch; the result
\* pushed is success only when nothing threw
BulkOcrDone(r, outcome, writeOk, d) ==
    /\ Settled
    /\ reqs[r].kind = "bulk" /\ reqs[r].pc = "ocr"
    /\ LET fid == reqs[r].fid
           ok == Send(Send(pending,
                      AfterOCRStmt(fid, DetectedLanguage(outcome), "success")),
                      AiNameStmt(fid, GenerateAIFileName(outcome)))
           failed(bag) == Send(bag, AfterOCRStmt(fid, "unknown", "failed"))
       IN
       IF outcome = "error"
       THEN BulkContinue(r, reqs[r].sc, reqs[r].fc + 1, failed(pending))
       ELSE IF writeOk
       THEN BulkContinue(r, reqs[r].sc + 1, reqs[r].fc, ok)
       ELSE BulkContinue(r, reqs[r].sc, reqs[r].fc + 1, failed(ok))
    /\ WriteFault(outcome, writeOk)
    /\ Elapse(d)
    /\ UNCHANGED <<dbt1_developer, dbt2_user, dbt3_file, endLost>>
    /\ ocr' = ocr @@ (reqs[r].fid :> outcome)
    /\ UNCHANGED calls

\* updateFileAfterOCR(fileId, ...) for a fileId that names no FileRecord: ids
\* are allocated from 1 and a run adds at most MaxFiles records
UnknownCompletion(state) ==
    /\ Settled
    /\ Load < MaxFiles
    /\ reqs' = Append(reqs, Request("completion", "done", NoPos, 0, 0))
    /\ pending' = Send(pending, AfterOCRStmt(MaxFiles + 1, "unknown", state))
    /\ UNCHANGED <<now, dbt1_developer, dbt2_user, dbt3_file, faults, endCalls, endLost, ocr, calls>>

\* ------------------------------------------ the queued statements execute
ExecUpdateFileAfterOCR ==
    /\ Settled
    /\ \E s \in Queued("updateFileAfterOCR") :
        /\ dbt3_file' = UpdateFile(s.fid, AfterOCRRow(FileRow(s.fid), s.lang, s.state))
        /\ pending' = Taken(s)
        /\ UNCHANGED <<now, dbt1_developer, dbt2_user, reqs, faults, endCalls, endLost, ocr, calls>>

ExecSetAiFileName ==
    \E s \in Queued("setAiFileName") :
        /\ dbt3_file' = UpdateFile(s.fid, AiNameRow(FileRow(s.fid), s.name))
        /\ pending' = Taken(s)
        /\ UNCHANGED <<now, dbt1_developer, dbt2_user, reqs, faults, endCalls, endLost, ocr, calls>>

ExecUpdateUserStats ==
    /\ Settled
    /\ \E s \in Queued("updateUserStats") :
        /\ dbt2_user' = UpdateUser(s.pos, StatsRow(UserRow(s.pos)))
        /\ pending' = Taken(s)
        /\ UNCHANGED <<now, dbt1_developer, dbt3_file, reqs, faults, endCalls, endLost, ocr, calls>>

ExecIncrementFileCount ==
    \E s \in Queued("incrementFileCount") :
        /\ dbt1_developer' = FileCountRow(dbt1_developer)
        /\ pending' = Taken(s)
        /\ UNCHANGED <<now, dbt2_user, dbt3_file, reqs, faults, endCalls, endLost, ocr, calls>>

ExecUpdateUserExtractionStart ==
    \E s \in Queued("updateUserExtractionStart") :
        /\ dbt2_user' = UpdateUser(s.pos, ExtractionStartRow(UserRow(s.pos)))
        /\ pending' = Taken(s)
        /\ UNCHANGED <<now, dbt1_developer, dbt3_file, reqs, faults, endCalls, endLost, ocr, calls>>

\* the callback if it went on to the recomputation whatever err is
ExtractionEndCallbackIgnoringErr(err, bag, pos) ==
    Send(bag, S0("updateUserTotalProcessingTime", pos))

\* the callback of the first UPDATE of updateUserExtractionEnd[Bulk]: with err
\* it returns, else it calls updateUserTotalProcessingTime, which queues the SUM
ExtractionEndCallback(err, bag, pos) ==
    IF err THEN bag ELSE Send(bag, S0("updateUserTotalProcessingTime", pos))

\* updateUserExtractionEnd and updateUserExtractionEndBulk: the UPDATE runs,
\* then its callback
ExecUpdateUserExtractionEnd ==
    /\ Settled
    /\ \E s \in Queued("updateUserExtractionEnd") \cup Queued("updateUserExtractionEndBulk") :
        /\ dbt2_user' = UpdateUser(s.pos, ExtractionEndRow(UserRow(s.pos), s.a, s.b))
        /\ pending' = ExtractionEndCallback(FALSE, Taken(s), s.pos)
        /\ UNCHANGED <<now, dbt1_developer, dbt3_file, reqs, faults, endCalls, endLost, ocr, calls>>

\* updateUserTotalProcessingTime: the SELECT SUM runs; its callback queues the
\* UPDATE with the total it read
ExecUpdateUserTotalProcessingTime ==
    /\ Settled
    /\ \E s \in Queued("updateUserTotalProcessingTime") :
        /\ pending' = Send(Taken(s),
                Stmt("setTotalProcessingTime", 0, s.pos, 0, SumProcessingTime(s.pos), 0, "", ""))
        /\ UNCHANGED <<now, dbt1_developer, dbt2_user, dbt3_file, reqs, faults, endCalls, endLost, ocr, calls>>

ExecSetTotalProcessingTime ==
    /\ Settled
    /\ \E s \in Queued("setTotalProcessingTime") :
        /\ dbt2_user' = UpdateUser(s.pos, TotalRow(UserRow(s.pos), s.a))
        /\ pending' = Taken(s)
        /\ UNCHANGED <<now, dbt1_developer, dbt3_file, reqs, faults, endCalls, endLost, ocr, calls>>

\* a statement fails in the storage layer (SQLITE_BUSY, disk full, ...): it
\* changes nothing and its callback is called with err
StorageError(cap) ==
    /\ Load < cap
    /\ faults' = faults + 1
    /\ \E s \in BagToSet(pending) :
        /\ s.op \in SideOps \/ Settled
        /\ CASE s.op \in {"getNextUserPosition", "createUser"} ->
                /\ reqs' = [reqs EXCEPT ![s.req].pc = "done", ![s.req].status = 500]
                /\ pending' = Taken(s)
                /\ UNCHANGED <<endCalls, endLost, ocr, calls>>
          [] s.op = "addFile" /\ reqs[s.req].kind = "upload" ->
                /\ reqs' = [reqs EXCEPT ![s.req].pc = "done", ![s.req].status = 500]
                /\ pending' = Taken(s)
                /\ UNCHANGED <<endCalls, endLost, ocr, calls>>
          [] s.op = "addFile" /\ reqs[s.req].kind = "bulk" ->
                /\ BulkContinue(s.req, reqs[s.req].sc, reqs[s.req].fc + 1, Taken(s))
                /\ UNCHANGED endLost
          [] s.op \in {"updateUserExtractionEnd", "updateUserExtractionEndBulk"} ->
                /\ pending' = ExtractionEndCallback(TRUE, Taken(s), s.pos)
                /\ endLost' = AddEnd(endLost, s.pos, s.a, s.b)
                /\ UNCHANGED <<reqs, endCalls>>
          [] OTHER ->
                /\ pending' = Taken(s)
                /\ UNCHANGED <<reqs, endCalls, endLost, ocr, calls>>
    /\ UNCHANGED <<now, dbt1_developer, dbt2_user, dbt3_file, ocr, calls>>

\* the requests and OCR results, with their inputs
Upload == \E pos \in {NoPos} \cup Positions : StartUpload(pos)

UploadBulk == \E pos \in {NoPos} \cup Positions, n \in 1..MaxBatch : StartBulk(pos, n)

UploadOcr ==
    \E r \in DOMAIN reqs, o \in Outcomes, w \in BOOLEAN, d \in 0..MaxTime :
        UploadOcrDone(r, o, w, d)

BulkOcr ==
    \E r \in DOMAIN reqs, o \in Outcomes, w \in BOOLEAN, d \in 0..MaxTime :
        BulkOcrDone(r, o, w, d)

Completion == \E state \in {"success", "failed"} : UnknownCompletion(state)

\* a run of session requests against the empty database
NextSession ==
    \/ StartSession
    \/ ExecGetNextUserPosition
    \/ ExecCreateUser
    \/ ExecIncrementUserCount
    \/ StorageError(MaxSessions)

SpecSession == Init /\ [][NextSession]_vars

\* a run of uploads against a database in which sessions have been created
Next ==
    \/ Upload
    \/ UploadBulk
    \/ ExecAddFile
    \/ UploadOcr
    \/ BulkOcr
    \/ Completion
    \/ ExecUpdateFileAfterOCR
    \/ ExecSetAiFileName
    \/ ExecUpdateUserStats
    \/ ExecIncrementFileCount
    \/ ExecUpdateUserExtractionStart
    \/ ExecUpdateUserExtractionEnd
    \/ ExecUpdateUserTotalProcessingTime
    \/ ExecSetTotalProcessingTime
    \/ StorageError(MaxFiles)

Spec == InitUpload /\ [][Next]_vars

\* ======================================================= server/aiNaming.js
\* A JavaScript string is a TLA+ string; Ch(s, i) is its i-th character
\* (counted from 1) and "" outside the string.
Ch(s, i) == IF i >= 1 /\ i <= Len(s) THEN SubSeq(s, i, i) ELSE ""

\* s.substring(from - 1): the rest of s from its from-th character on
From(s, from) == SubSeq(s, from, Len(s))

\* s.substring(0, n)
Substring(s, n) == SubSeq(s, 1, IF Len(s) < n THEN Len(s) ELSE n)

CharsOf(s) == {Ch(s, i) : i \in 1..Len(s)}

Lower == CharsOf("abcdefghijklmnopqrstuvwxyz")
Upper == CharsOf("ABCDEFGHIJKLMNOPQRSTUVWXYZ")
Letter == Lower \cup Upper
Digit == CharsOf("0123456789")
\* \s of a regular expression, and what trim() removes
Space == {" ", "\n", "\t", "\r"}
\* \w of a regular expression
Word == Letter \cup Digit \cup {"_"}

\* c.toLowerCase()
LowerOf(c) ==
    IF c \in Upper
    THEN LET upper == "ABCDEFGHIJKLMNOPQRSTUVWXYZ"
         IN Ch("abcdefghijklmnopqrstuvwxyz", CHOOSE i \in 1..Len(upper) : Ch(upper, i) = c)
    ELSE c

\* the position of the first / last character of s that is not white space
RECURSIVE FirstInk(_, _)
FirstInk(s, i) == IF i > Len(s) \/ Ch(s, i) \notin Space THEN i ELSE FirstInk(s, i + 1)

RECURSIVE LastInk(_, _)
LastInk(s, i) == IF i < 1 \/ Ch(s, i) \notin Space THEN i ELSE LastInk(s, i - 1)

\* s.trim()
Trim(s) == SubSeq(s, FirstInk(s, 1), LastInk(s, Len(s)))

\* ------------------------------------------------------ sanitizeFileName
\* .substring(0, 50)
NameLimit == 50

\* [a-z0-9_\-] with the i flag
NameChar == Letter \cup Digit \cup {"_", "-"}

\* the replacement if a dot were left in the name
UnderscoredExceptDot(c) == IF c \in NameChar \cup {"."} THEN c ELSE "_"

\* .replace(/[^a-z0-9_\-]/gi, '_')
Underscored(c) == IF c \in NameChar THEN c ELSE "_"

\* what stands for the character at position i of s after a replacement of
\* every match of a pattern, or after toLowerCase
Piece(s, i, how) ==
    LET c == Ch(s, i)
    IN CASE how = "toLowerCase" -> LowerOf(c)
         [] how = "[^a-z0-9_-]" -> Underscored(c)
         [] how = "_+" -> IF c = "_" /\ Ch(s, i - 1) = "_" THEN "" ELSE c
         [] how = "\\s+" -> IF c \notin Space THEN c
                           ELSE IF Ch(s, i - 1) \in Space THEN "" ELSE " "
         [] how = "[/\\s,]" -> IF c \in Space \cup {"/", ","} THEN "-" ELSE c
         [] how = "[:.]" -> IF c \in {":", "."} THEN "-" ELSE c

RECURSIVE Pieces(_, _, _, _)
\* the pieces of the positions from..to of s, one after the other (each half
\* on its own)
Pieces(s, from, to, how) ==
    IF from > to THEN ""
    ELSE IF from = to THEN Piece(s, from, how)
    ELSE LET mid == (from + to) \div 2
         IN Pieces(s, from, mid, how) \o Pieces(s, mid + 1, to, how)

\* s.replace(/pattern/g, ...), the pattern one of those of Piece
Replace(s, how) == Pieces(s, 1, Len(s), how)

ToLowerCase(s) == Replace(s, "toLowerCase")

\* .replace(/^_|_$/g, ''): an underscore at the start and one at the end
Stripped(s) ==
    LET t == IF Ch(s, 1) = "_" THEN From(s, 2) ELSE s
    IN IF Ch(t, Len(t)) = "_" THEN SubSeq(t, 1, Len(t) - 1) ELSE t

\* the pipeline without || 'unnamed'
sanitizeFileNameWithoutDefault(name) ==
    Substring(Stripped(Replace(Replace(name, "[^a-z0-9_-]"), "_+")), NameLimit)

sanitizeFileName(name) ==
    LET clean == Substring(Stripped(Replace(Replace(name, "[^a-z0-9_-]"), "_+")), NameLimit)
    IN IF clean = "" THEN "unnamed" ELSE clean

\* ------------------------------------------------------------ the inputs
\* the strings of at most n characters of the alphabet
RECURSIVE Strings(_, _)
Strings(alphabet, n) ==
    IF n = 0 THEN {""}
    ELSE LET shorter == Strings(alphabet, n - 1)
         IN shorter \cup {s \o c : s \in shorter, c \in alphabet}

\* n times the string s
RECURSIVE Repeat(_, _)
Repeat(s, n) == IF n = 0 THEN "" ELSE s \o Repeat(s, n - 1)

\* names given to sanitizeFileName: short ones of every kind of character, and
\* the same after a run of letters that ends around the limit
SanitizeNames ==
    LET short == Strings({"a", "Z", "5", "_", "-", " ", "!"}, MaxChars)
    IN short \cup {Repeat("a", n) \o s : n \in (NameLimit - 2)..NameLimit, s \in short}

\* ------------------------------------------------------------- the calls
Call(fn, text, at, result) == [fn |-> fn, text |-> text, at |-> at, result |-> result]

CallsOf(fn) == {calls[i] : i \in {j \in DOMAIN calls : calls[j].fn = fn}}

Sanitize ==
    /\ calls = << >>
    /\ \E name \in SanitizeNames :
          calls' = <<Call("sanitizeFileName", name, 0, sanitizeFileName(name))>>
    /\ UNCHANGED served

\* ------------------------------------------------------- extractKeywords
\* number of words of the texts given to the functions of aiNaming.js
MaxWords == 3

RECURSIVE Join(_, _)
\* parts.join(sep)
Join(parts, sep) ==
    IF parts = << >> THEN ""
    ELSE IF Len(parts) = 1 THEN parts[1]
    ELSE parts[1] \o sep \o Join(Tail(parts), sep)

\* array.slice(0, n)
Slice(array, n) == SubSeq(array, 1, IF Len(array) < n THEN Len(array) ELSE n)

RECURSIVE RunEnd(_, _, _)
\* the last position of the longest run of characters of a class that starts
\* at position i (i - 1 when there is none)
RunEnd(s, i, class) ==
    IF i <= Len(s) /\ Ch(s, i) \in class THEN RunEnd(s, i + 1, class) ELSE i - 1

RECURSIVE WordRuns(_, _)
\* the maximal runs of \w characters of s from position i on: \b holds only
\* at the two ends of such a run
WordRuns(s, i) ==
    IF i > Len(s) THEN << >>
    ELSE IF Ch(s, i) \notin Word THEN WordRuns(s, i + 1)
    ELSE LET e == RunEnd(s, i, Word)
         IN <<SubSeq(s, i, e)>> \o WordRuns(s, e + 1)

\* text.match(/\b[a-z]+\b/g) || []: a run of a-z matches when a \b stands on
\* both sides of it, that is when it is a whole run of \w characters
MatchWords(text) == SelectSeq(WordRuns(text, 1), LAMBDA w : CharsOf(w) \subseteq Lower)

stopWords ==
    {"the", "is", "at", "which", "on", "a", "an", "and", "or", "but",
     "in", "with", "to", "for", "of", "as", "by", "that", "this",
     "it", "from", "be", "are", "was", "were", "been", "have", "has",
     "had", "do", "does", "did", "will", "would", "could", "should",
     "may", "might", "can", "so", "if", "than", "all", "any", "some"}

\* the properties that the object literal {} inherits from Object.prototype
\* and that a word of /[a-z]+/ longer than 3 can name: wordCount[word] is the
\* function Object for it before the word was counted
Inherited == {"constructor"}

MinWordLength == 3
MaxKeywords == 5

RECURSIVE IndexOf(_, _, _)
\* the position of the entry of a word from position i on (0 when none)
IndexOf(entries, word, i) ==
    IF i > Len(entries) THEN 0
    ELSE IF entries[i].word = word THEN i
    ELSE IndexOf(entries, word, i + 1)

\* wordCount[word] = (wordCount[word] || 0) + 1: a new key goes after the
\* others; on an inherited property the sum is a string concatenation, and
\* the value stays a string from then on
Counted(entries, word) ==
    LET at == IndexOf(entries, word, 1)
    IN IF at = 0
       THEN Append(entries, [word |-> word, count |-> 1, text |-> word \in Inherited])
       ELSE [entries EXCEPT ![at].count = @ + 1]

RECURSIVE WordCount(_, _)
\* words.forEach(...) over the first n words
WordCount(words, n) ==
    IF n = 0 THEN << >>
    ELSE LET before == WordCount(words, n - 1)
             word == words[n]
         IN IF Len(word) > MinWordLength /\ word \notin stopWords
            THEN Counted(before, word)
            ELSE before

\* (a, b) => b[1] - a[1] as Array.prototype.sort reads it: the difference is
\* NaN when one of the counts is a string, and sort takes NaN for +0
SortCompare(a, b) == IF a.text \/ b.text THEN 0 ELSE b.count - a.count

RECURSIVE CountRun(_, _, _)
\* the length of the run at the start of the array (descending as sort sees
\* it when isDescending), looked at from position idx on
CountRun(array, idx, isDescending) ==
    IF idx > Len(array) THEN Len(array)
    ELSE LET order == SortCompare(array[idx], array[idx - 1])
         IN IF (isDescending /\ order >= 0) \/ (~isDescending /\ order < 0)
            THEN idx - 1
            ELSE CountRun(array, idx + 1, isDescending)

RECURSIVE Reverse(_)
Reverse(array) ==
    IF array = << >> THEN << >> ELSE Append(Reverse(Tail(array)), Head(array))

RECURSIVE BinarySearch(_, _, _, _)
\* where the pivot goes among array[left..right-1]
BinarySearch(array, pivot, left, right) ==
    IF left >= right THEN left
    ELSE LET mid == left + ((right - left) \div 2)
         IN IF SortCompare(pivot, array[mid]) < 0
            THEN BinarySearch(array, pivot, left, mid)
            ELSE BinarySearch(array, pivot, mid + 1, right)

RECURSIVE BinaryInsertionSort(_, _)
\* array[1..start-1] is sorted; the elements from start on are inserted
BinaryInsertionSort(array, start) ==
    IF start > Len(array) THEN array
    ELSE LET pivot == array[start]
             left == BinarySearch(array, pivot, 1, start)
         IN BinaryInsertionSort(
                SubSeq(array, 1, left - 1) \o <<pivot>> \o SubSeq(array, left, start - 1)
                    \o SubSeq(array, start + 1, Len(array)),
                start + 1)

\* Array.prototype.sort(comparefn) of an array shorter than a merge run: the
\* run at the start is found (and reversed when descending), the rest is
\* inserted by binary search
Sort(array) ==
    IF Len(array) < 2 THEN array
    ELSE LET isDescending == SortCompare(array[2], array[1]) < 0
             runLength == CountRun(array, 3, isDescending)
             run == SubSeq(array, 1, runLength)
             made == (IF isDescending THEN Reverse(run) ELSE run)
                        \o SubSeq(array, runLength + 1, Len(array))
         IN BinaryInsertionSort(made, runLength + 1)

extractKeywords(text) ==
    LET words == MatchWords(ToLowerCase(text))
        wordCount == WordCount(words, Len(words))
        keywords == Slice(Sort(wordCount), MaxKeywords)
    IN [i \in DOMAIN keywords |-> keywords[i].word]

RECURSIVE Texts(_, _)
\* the texts of at most n of the given tokens, one space between two
Texts(tokens, n) ==
    IF n = 0 THEN {""}
    ELSE LET shorter == Texts(tokens, n - 1)
         IN shorter \cup {IF t = "" THEN w ELSE t \o " " \o w : t \in shorter, w \in tokens}

\* texts given to extractKeywords: short ones of every kind of token, blank
\* ones, and two with more than MaxKeywords different words
KeywordTexts ==
    Texts({"alpha", "Alpha", "beta", "constructor", "the", "cat", "which",
           "data1", "x_ray", "!"}, MaxWords)
        \cup {" ", " \n\t ",
              "echo delta delta gamma gamma gamma zeta. Theta, kappa",
              "one, lambda sigma omega omega lambda kappa kappa kappa theta delta delta"}

Keywords ==
    /\ calls = << >>
    /\ \E text \in KeywordTexts :
          calls' = <<Call("extractKeywords", text, 0, extractKeywords(text))>>
    /\ UNCHANGED served

\* ---------------------------------------------------- detectDocumentType
\* \b before position p: one of the characters on its two sides is a word
\* character and the other is not (the ends of the text count as not)
Boundary(s, p) == (Ch(s, p - 1) \in Word) # (Ch(s, p) \in Word)

\* s.match(/\b(phrase|phrase|...)\b/)
Matches(s, phrases) ==
    \E i \in 1..Len(s) : \E phrase \in phrases :
        /\ i + Len(phrase) - 1 <= Len(s)
        /\ SubSeq(s, i, i + Len(phrase) - 1) = phrase
        /\ Boundary(s, i)
        /\ Boundary(s, i + Len(phrase))

\* s.match(/\$\d+|\d+\.\d{2}/)
HasPrice(s) ==
    \E i \in 1..Len(s) :
        \/ Ch(s, i) = "$" /\ Ch(s, i + 1) \in Digit
        \/ /\ Ch(s, i) \in Digit
           /\ Ch(s, i + 1) = "."
           /\ Ch(s, i + 2) \in Digit
           /\ Ch(s, i + 3) \in Digit


\* the rules if one half of the receipt rule and of the form rule were enough
ConditionEitherHalf(label, textLower) ==
    CASE label = "invoice" ->
            Matches(textLower, {"invoice", "bill", "billing", "payment due",
                                "amount due", "total amount", "subtotal"})
      [] label = "receipt" ->
            \/ Matches(textLower, {"receipt", "paid", "transaction", "purchase", "sale"})
            \/ HasPrice(textLower)
      [] label = "contract" ->
            Matches(textLower, {"contract", "agreement", "terms and conditions",
                                "hereby agree", "party", "parties"})
      [] label = "letter" ->
            Matches(textLower, {"dear ", "sincerely", "regards", "yours truly", "subject:"})
      [] label = "report" ->
            Matches(textLower, {"report", "summary", "analysis", "findings",
                                "conclusion", "executive summary"})
      [] label = "certificate" ->
            Matches(textLower, {"certificate", "certify", "awarded", "completion",
                                "achievement"})
      [] label = "form" ->
            \/ Matches(textLower, {"form", "application", "questionnaire", "survey"})
            \/ Matches(textLower, {"name", "address", "date", "signature"})
      [] label = "memo" ->
            Matches(textLower, {"memo", "memorandum", "note", "to:", "from:", "re:"})
      [] label = "id" ->
            Matches(textLower, {"passport", "identification", "id card",
                                "driver license", "permit"})
      [] label = "ticket" ->
            Matches(textLower, {"ticket", "boarding pass", "admission", "entry"})
      [] OTHER -> FALSE

\* the condition of the rule of a label
Condition(label, textLower) ==
    CASE label = "invoice" ->
            Matches(textLower, {"invoice", "bill", "billing", "payment due",
                                "amount due", "total amount", "subtotal"})
      [] label = "receipt" ->
            /\ Matches(textLower, {"receipt", "paid", "transaction", "purchase", "sale"})
            /\ HasPrice(textLower)
      [] label = "contract" ->
            Matches(textLower, {"contract", "agreement", "terms and conditions",
                                "hereby agree", "party", "parties"})
      [] label = "letter" ->
            Matches(textLower, {"dear ", "sincerely", "regards", "yours truly", "subject:"})
      [] label = "report" ->
            Matches(textLower, {"report", "summary", "analysis", "findings",
                                "conclusion", "executive summary"})
      [] label = "certificate" ->
            Matches(textLower, {"certificate", "certify", "awarded", "completion",
                                "achievement"})
      [] label = "form" ->
            /\ Matches(textLower, {"form", "application", "questionnaire", "survey"})
            /\ Matches(textLower, {"name", "address", "date", "signature"})
      [] label = "memo" ->
            Matches(textLower, {"memo", "memorandum", "note", "to:", "from:", "re:"})
      [] label = "id" ->
            Matches(textLower, {"passport", "identification", "id card",
                                "driver license", "permit"})
      [] label = "ticket" ->
            Matches(textLower, {"ticket", "boarding pass", "admission", "entry"})
      [] OTHER -> FALSE

\* the rules with the contract patterns tried before the invoice patterns
detectDocumentTypeContractFirst(textLower) ==
    IF Condition("contract", textLower) THEN "contract"
    ELSE IF Condition("invoice", textLower) THEN "invoice"
    ELSE IF Condition("receipt", textLower) THEN "receipt"
    ELSE IF Condition("letter", textLower) THEN "letter"
    ELSE IF Condition("report", textLower) THEN "report"
    ELSE IF Condition("certificate", textLower) THEN "certificate"
    ELSE IF Condition("form", textLower) THEN "form"
    ELSE IF Condition("memo", textLower) THEN "memo"
    ELSE IF Condition("id", textLower) THEN "id"
    ELSE IF Condition("ticket", textLower) THEN "ticket"
    ELSE "document"

detectDocumentType(textLower) ==
    IF Condition("invoice", textLower) THEN "invoice"
    ELSE IF Condition("receipt", textLower) THEN "receipt"
    ELSE IF Condition("contract", textLower) THEN "contract"
    ELSE IF Condition("letter", textLower) THEN "letter"
    ELSE IF Condition("report", textLower) THEN "report"
    ELSE IF Condition("certificate", textLower) THEN "certificate"
    ELSE IF Condition("form", textLower) THEN "form"
    ELSE IF Condition("memo", textLower) THEN "memo"
    ELSE IF Condition("id", textLower) THEN "id"
    ELSE IF Condition("ticket", textLower) THEN "ticket"
    ELSE "document"

\* words of every rule, a price, a word that only starts like a rule's, and
\* the patterns that end in a colon with and without a word behind it
DetectTexts ==
    Texts({"invoice", "paid", "$5", "contract", "dear", "subject:hi", "reports",
           "certify", "form", "name", "to:", "re:x", "permit", "entry", "hello"},
          MaxWords)

Detect ==
    /\ calls = << >>
    /\ \E textLower \in DetectTexts :
          calls' = <<Call("detectDocumentType", textLower, 0, detectDocumentType(textLower))>>
    /\ UNCHANGED served

\* --------------------------------------------------------- extractContext
\* the words of a pattern that stand at position i, in letters of any case
\* (flag i of the pattern)
KeywordsAt(text, words, i) ==
    {w \in words :
        /\ i + Len(w) - 1 <= Len(text)
        /\ ToLowerCase(SubSeq(text, i, i + Len(w) - 1)) = w}

\* the text of a capture, '' when the pattern did not match
Captured(capture) == IF capture = {} THEN "" ELSE CHOOSE s \in capture : TRUE

\* /(?:from|company|vendor)[\s:]+([A-Z][A-Za-z\s&,\.]{2,30})/i at position i:
\* the separators are taken to the last one, as the capture starts with a
\* letter; after it come 2 to 30 more characters, as many as there are
CompanyAt(text, i) ==
    LET words == KeywordsAt(text, {"from", "company", "vendor"}, i)
    IN IF words = {} THEN {}
       ELSE LET after == i + Len(CHOOSE w \in words : TRUE)
                first == RunEnd(text, after, Space \cup {":"}) + 1
                run == RunEnd(text, first + 1, Letter \cup Space \cup {"&", ",", "."})
                last == IF run > first + 30 THEN first + 30 ELSE run
            IN IF first > after /\ Ch(text, first) \in Letter /\ last >= first + 2
               THEN {SubSeq(text, first, last)}
               ELSE {}

\* /(?:subject|re)[\s:]+([A-Za-z\s]{3,40})/i at position i: the separators
\* are taken to the last one, and given back one by one to the capture until
\* 3 to 40 letters and spaces follow
SubjectAt(text, i) ==
    LET words == KeywordsAt(text, {"subject", "re"}, i)
    IN IF words = {} THEN {}
       ELSE LET after == i + Len(CHOOSE w \in words : TRUE)
                most == RunEnd(text, after, Space \cup {":"}) + 1
                starts == {first \in (after + 1)..most :
                              RunEnd(text, first, Letter \cup Space) >= first + 2}
            IN IF starts = {} THEN {}
               ELSE LET first == CHOOSE f \in starts : \A g \in starts : f >= g
                        run == RunEnd(text, first, Letter \cup Space)
                        last == IF run > first + 39 THEN first + 39 ELSE run
                    IN {SubSeq(text, first, last)}

\* \d{..}[\/\-]\d{1,2}[\/\-]\d{..}\b at position i, for the lengths allowed to
\* the first and to the last number: the position of its last character (0
\* when it does not match); each number is a whole run of digits, as a
\* separator or the \b follows it
NumericDateEnd(text, i, firstLengths, lastLengths) ==
    LET a == RunEnd(text, i, Digit)
        b == RunEnd(text, a + 2, Digit)
        c == RunEnd(text, b + 2, Digit)
    IN IF /\ (a - i + 1) \in firstLengths
          /\ Ch(text, a + 1) \in {"/", "-"}
          /\ (b - a - 1) \in {1, 2}
          /\ Ch(text, b + 1) \in {"/", "-"}
          /\ (c - b - 1) \in lastLengths
          /\ Boundary(text, c + 1)
       THEN c
       ELSE 0

\* (?:Jan|...|Dec)[a-z]*\s+\d{1,2},?\s+\d{4}\b at position i: the position of
\* its last character (0 when it does not match)
MonthDateEnd(text, i) ==
    IF KeywordsAt(text, {"jan", "feb", "mar", "apr", "may", "jun", "jul", "aug",
                         "sep", "oct", "nov", "dec"}, i) = {} THEN 0
    ELSE LET name == RunEnd(text, i + 3, Letter)
             gap == RunEnd(text, name + 1, Space)
             day == RunEnd(text, gap + 1, Digit)
             comma == IF Ch(text, day + 1) = "," THEN day + 1 ELSE day
             space == RunEnd(text, comma + 1, Space)
             year == RunEnd(text, space + 1, Digit)
         IN IF /\ gap > name
               /\ (day - gap) \in {1, 2}
               /\ space > comma
               /\ year - space = 4
               /\ Boundary(text, year + 1)
            THEN year
            ELSE 0

\* the date pattern at position i: \b, then the first of its three
\* alternatives that matches
DateAt(text, i) ==
    IF ~Boundary(text, i) THEN {}
    ELSE LET dayFirst == NumericDateEnd(text, i, {1, 2}, {2, 3, 4})
             yearFirst == NumericDateEnd(text, i, {4}, {1, 2})
             month == MonthDateEnd(text, i)
             last == IF dayFirst # 0 THEN dayFirst
                     ELSE IF yearFirst # 0 THEN yearFirst
                     ELSE month
         IN IF last = 0 THEN {} ELSE {SubSeq(text, i, last)}

\* /(?:total|amount|sum)[\s:$]*(\d+[\.,]\d{2})/i at position i
AmountAt(text, i) ==
    LET words == KeywordsAt(text, {"total", "amount", "sum"}, i)
    IN IF words = {} THEN {}
       ELSE LET after == i + Len(CHOOSE w \in words : TRUE)
                first == RunEnd(text, after, Space \cup {":", "$"}) + 1
                whole == RunEnd(text, first, Digit)
            IN IF /\ whole >= first
                  /\ Ch(text, whole + 1) \in {".", ","}
                  /\ Ch(text, whole + 2) \in Digit
                  /\ Ch(text, whole + 3) \in Digit
               THEN {SubSeq(text, first, whole + 3)}
               ELSE {}

\* the capture of the first of the positions where a pattern matches
FirstMatch(hits) ==
    IF hits = {} THEN {}
    ELSE (CHOOSE hit \in hits : \A other \in hits : hit[1] <= other[1])[2]

\* text.match(pattern): the capture of the leftmost match, of what the
\* pattern gives at each position of the text
Leftmost(tries) == FirstMatch({try \in tries : try[2] # {}})

RECURSIVE Without(_, _)
\* .replace(',', ''): the first one only
Without(s, c) ==
    IF s = "" THEN ""
    ELSE IF Ch(s, 1) = c THEN From(s, 2)
    ELSE Ch(s, 1) \o Without(From(s, 2), c)

RECURSIVE Split(_, _)
\* text.split(sep), sep one character
Split(text, sep) ==
    LET ends == {i \in 1..Len(text) : Ch(text, i) = sep}
    IN IF ends = {} THEN <<text>>
       ELSE LET at == CHOOSE i \in ends : \A j \in ends : i <= j
            IN <<SubSeq(text, 1, at - 1)>> \o Split(From(text, at + 1), sep)

\* the subject taken from the first line that has more than 3 characters
FirstLineSubject(text) ==
    LET lines == SelectSeq(Split(text, "\n"), LAMBDA l : Len(Trim(l)) > 3)
    IN IF lines = << >> THEN ""
       ELSE LET firstLine == Trim(lines[1])
            IN IF Len(firstLine) < 50 /\ Len(firstLine) > 3
               THEN Substring(sanitizeFileName(firstLine), 30)
               ELSE ""

\* sanitizeFileName(match[1].trim()).substring(0, 20) when the pattern matched
NamePart(match) ==
    IF match = {} THEN "" ELSE Substring(sanitizeFileName(Trim(Captured(match))), 20)

\* the context if the title were taken whenever no subject was found
ContextWithTitle(text, company, subject, dateMatch, amountMatch) ==
    [company |-> company,
     subject |-> IF subject = "" THEN FirstLineSubject(text) ELSE subject,
     date |-> Replace(Captured(dateMatch), "[/\\s,]"),
     amount |-> Without(Captured(amountMatch), ",")]

\* the context once the four patterns were tried: the title is taken when
\* neither a subject nor a company was found
Context(text, company, subject, dateMatch, amountMatch) ==
    [company |-> company,
     subject |-> IF subject = "" /\ company = "" THEN FirstLineSubject(text) ELSE subject,
     date |-> Replace(Captured(dateMatch), "[/\\s,]"),
     amount |-> Without(Captured(amountMatch), ",")]

\* extractContext if it looked for an amount whatever the document type
extractContextAmountAlways(text, textLower, docType) ==
    Context(text,
            NamePart(Leftmost({<<i, CompanyAt(text, i)>> : i \in 1..Len(text)})),
            NamePart(Leftmost({<<i, SubjectAt(text, i)>> : i \in 1..Len(text)})),
            Leftmost({<<i, DateAt(text, i)>> : i \in 1..Len(text)}),
            Leftmost({<<i, AmountAt(text, i)>> : i \in 1..Len(text)}))

\* a field of the context that was not set is '': identifyTopic takes the two
\* for the same
extractContext(text, textLower, docType) ==
    Context(text,
            NamePart(Leftmost({<<i, CompanyAt(text, i)>> : i \in 1..Len(text)})),
            NamePart(Leftmost({<<i, SubjectAt(text, i)>> : i \in 1..Len(text)})),
            Leftmost({<<i, DateAt(text, i)>> : i \in 1..Len(text)}),
            IF docType \in {"invoice", "receipt"}
            THEN Leftmost({<<i, AmountAt(text, i)>> : i \in 1..Len(text)})
            ELSE {})

\* the document types that detectDocumentType returns
DocTypes ==
    {"invoice", "receipt", "contract", "letter", "report", "certificate", "form",
     "memo", "id", "ticket", "document"}

\* texts given to extractContext: with each of the patterns and with none, of
\* one line and of several, with a first line too short and too long for a
\* title and of the lengths around the limit
ExtractTexts ==
    {"",
     "Invoice From: Acme Corp. Re: Hi there 01/02/2023 Total: $12.50",
     "Total: $12.50",
     "Amount 1,50 paid",
     "From: Acme Corp.\nHello there",
     "Re: Hi there\nHello world",
     "  Hello  ",
     "ab\n Hello world \nSecond line",
     "ab\n!!\n",
     "Data1 data2 data3 data4 data5 data6 data7 data8 data9 data10\nTitle here",
     Repeat("a", 49),
     Repeat("a", 50)}

Extract ==
    /\ calls = << >>
    /\ \E text \in ExtractTexts, docType \in DocTypes :
          calls' = <<Call("extractContext", <<text, docType>>, 0,
                          extractContext(text, ToLowerCase(text), docType))>>
    /\ UNCHANGED served

\* ---------------------------------------------------------- identifyTopic
\* the parts with the amount pushed before the date
namePartsAmountBeforeDate(docType, context) ==
       (IF docType # "document" THEN <<docType>> ELSE << >>)
       \o (IF context.company # "" THEN <<context.company>> ELSE << >>)
       \o (IF context.subject # "" THEN <<context.subject>> ELSE << >>)
       \o (IF context.amount # "" THEN <<context.amount>> ELSE << >>)
       \o (IF context.date # "" THEN <<context.date>> ELSE << >>)

\* nameParts after the five pushes
nameParts(docType, context) ==
       (IF docType # "document" THEN <<docType>> ELSE << >>)
       \o (IF context.company # "" THEN <<context.company>> ELSE << >>)
       \o (IF context.subject # "" THEN <<context.subject>> ELSE << >>)
       \o (IF context.date # "" THEN <<context.date>> ELSE << >>)
       \o (IF context.amount # "" THEN <<context.amount>> ELSE << >>)

\* text.split(' ').filter(word => word.length > 3).slice(0, 3).join('_')
firstWords(text) ==
    Join(Slice(SelectSeq(Split(text, " "), LAMBDA word : Len(word) > 3), 3), "_")

\* the fallbacks with the first words tried before the keywords
FallbackWordsFirst(keywords, text) ==
    IF firstWords(text) # "" THEN ToLowerCase(firstWords(text))
    ELSE IF Len(keywords) > 0 THEN Join(Slice(keywords, 3), "_")
    ELSE "document"

\* what identifyTopic returns when nameParts is empty
Fallback(keywords, text) ==
    IF Len(keywords) > 0 THEN Join(Slice(keywords, 3), "_")
    ELSE IF firstWords(text) # "" THEN ToLowerCase(firstWords(text))
    ELSE "document"

\* the name of the parts, or the fallback when there is none
TopicOf(parts, keywords, text) ==
    IF Len(parts) > 0 THEN Join(Slice(parts, 4), "_") ELSE Fallback(keywords, text)

\* the type found in the text and the parts it gives
PartsOf(text, docType) ==
    nameParts(docType, extractContext(text, ToLowerCase(text), docType))

identifyTopic(keywords, text) ==
    TopicOf(PartsOf(text, detectDocumentType(ToLowerCase(text))), keywords, text)

\* texts given to identifyTopic: short ones of phrases that give each part of
\* a name and of words that give none, one with
\* the five parts, one without a subject, lines too short and too long for a
\* title, with and without keywords and words of more than 3 characters
TopicTexts ==
    Texts({"Invoice", "paid", "From: Acme Corp.", "Re: Hi there", "01/02/2023",
           "Total: $12.50", "Hello", "ab"}, MaxWords)
        \cup {"Invoice From: Acme Corp. Re: Hi there 01/02/2023 Total: $12.50",
              "Invoice From: Acme Corp, 2023-01-02 Total: $1,50",
              "ab!",
              "ab\n!!\n",
              "machine learning network machine learning network machine learning",
              "Deep machine learning network, with the machine learning of a network",
              "Data1 data2 data3 data4 data5 data6 data7 data8 data9 data10",
              "ab1 cd2 ef3 gh4 ij5 kl6 mn7 op8 qr9 st1 uv2 wx3 yz4",
              "!!!! !!!! !!!! !!!! !!!! !!!! !!!! !!!! !!!! !!!! !!!!"}

Topic ==
    /\ calls = << >>
    /\ \E text \in TopicTexts :
          calls' = <<Call("identifyTopic", text, 0,
                          identifyTopic(extractKeywords(text), text))>>
    /\ UNCHANGED served

\* ----------------------------------------------------- generateAIFileName
\* calls of generateAIFileName in one run
MaxCalls == 2

\* n in decimal, with zeros before it up to a width
Padded(n, width) ==
    LET digits == ToString(n)
    IN Repeat("0", width - Len(digits)) \o digits

\* new Date().toISOString(), the clock in milliseconds and in its first minute
ToISOString(ms) ==
    "1970-01-01T00:00:" \o Padded(ms \div 1000, 2) \o "." \o Padded(ms % 1000, 3) \o "Z"

\* the name before the timestamp and the extension
SynthesizedName(extractedText) ==
    IF Trim(extractedText) = "" THEN "empty_document"
    ELSE LET cleanText == Trim(Replace(extractedText, "\\s+"))
             keywords == extractKeywords(cleanText)
             topic == identifyTopic(keywords, cleanText)
         IN sanitizeFileName(topic)

\* ms is what the clock shows at the call
generateAIFileName(extractedText, originalExtension, ms) ==
    SynthesizedName(extractedText) \o "_"
        \o (IF Trim(extractedText) = "" THEN ToString(ms)
            ELSE Substring(Replace(ToISOString(ms), "[:.]"), 19))
        \o originalExtension

\* texts that OCR gives: none, blank, without a letter, of each kind of name,
\* of a name longer than the limit
GenerateTexts ==
    {"", " \n ", "!!!!", "Hello",
     "Invoice\nFrom: Acme Corp.\n01/02/2023\nTotal: $12.50",
     "machine learning network machine learning network machine learning",
     "Certificate From: International Business Machines Subject: Annual service award 12/31/2023"}

\* a call is made 0, 1 or 1000 milliseconds after the call before it
Generate ==
    /\ Len(calls) < MaxCalls
    /\ \A i \in DOMAIN calls : calls[i].fn = "generateAIFileName"
    /\ \E text \in GenerateTexts, ext \in {".png", ".jpg"}, step \in {0, 1, 1000} :
          LET ms == (IF calls = << >> THEN 0 ELSE calls[Len(calls)].at) + step
          IN calls' = Append(calls, Call("generateAIFileName", <<text, ext>>, ms,
                                         generateAIFileName(text, ext, ms)))
    /\ UNCHANGED served

\* calls of the functions of aiNaming.js on their own
NextNaming ==
    \/ Sanitize
    \/ Keywords
    \/ Detect
    \/ Extract
    \/ Topic
    \/ Generate

SpecNaming == Init /\ [][NextNaming]_vars

\* ------------------------------------------------------------ properties
EndOps == {"updateUserExtractionEnd", "updateUserExtractionEndBulk"}

\* nothing is queued in the database and no handler is waiting for an OCR
Quiet == pending = EmptyBag /\ \A i \in DOMAIN reqs : reqs[i].pc = "done"

Terminal(row) == row.extraction_state \in {"success", "failed"}

FilesAt(pos) == {f \in DOMAIN dbt3_file : dbt3_file[f].user_queue_position = pos}

\* the session requests whose getNextUserPosition callback was handed a token
Handed == {i \in Sessions : reqs[i].pos # NoPos}

\* C1: no two session requests are handed the same queue-position token by
\* getNextUserPosition, however their statements interleave.
C1_TokensDistinct ==
    \A i \in Handed, j \in Handed : i # j => reqs[i].pos # reqs[j].pos

\* C2: for every QueueEntry, files treated + files not treated never exceeds
\* files uploaded.  Stated for the states in which nothing is in flight, which
\* every run of uploads ends in.
C2_OutcomesWithinUploaded ==
    Quiet => \A p \in DOMAIN dbt2_user :
        dbt2_user[p].total_files_treated + dbt2_user[p].total_files_not_treated
            <= dbt2_user[p].total_files_uploaded

SameCompletion(old, new) ==
    /\ new.extraction_state = old.extraction_state
    /\ new.extraction_end_timestamp = old.extraction_end_timestamp
    /\ new.file_processing_time = old.file_processing_time

\* C3: once a FileRecord is success or failed, no step changes its state, its
\* end timestamp or its processing time.
C3_TerminalIsFinal ==
    [][\A f \in DOMAIN dbt3_file :
          Terminal(dbt3_file[f]) => SameCompletion(dbt3_file[f], dbt3_file'[f])]_vars

\* every FileRecord of the entry is completed and counted
AllCounted(p) ==
    /\ FilesAt(p) # {}
    /\ \A f \in FilesAt(p) : Terminal(dbt3_file[f])
    /\ dbt2_user[p].total_files_treated + dbt2_user[p].total_files_not_treated
           >= Cardinality(FilesAt(p))

\* C4: a second completion of a file is rejected: an updateFileAfterOCR on a
\* record that is already success or failed leaves the record as it is, and
\* once every file of an entry is completed and counted, a further
\* updateUserExtractionEnd leaves the treated / not-treated counters as they are.
C4_SecondCompletionRejected ==
    [][/\ \A f \in DOMAIN dbt3_file :
             Terminal(dbt3_file[f]) => SameCompletion(dbt3_file[f], dbt3_file'[f])
       /\ \A p \in DOMAIN dbt2_user :
             AllCounted(p) =>
                /\ dbt2_user'[p].total_files_treated = dbt2_user[p].total_files_treated
                /\ dbt2_user'[p].total_files_not_treated
                       = dbt2_user[p].total_files_not_treated]_vars

\* C5: when no database operation is in flight, an entry's
\* total_processing_time is the sum of file_processing_time over its
\* FileRecords in state success, however updateFileAfterOCR and the
\* recomputations interleaved.  Stated for the runs without any fault of the
\* environment.
C5_TotalIsSumOfSuccess ==
    (Quiet /\ faults = 0) => \A p \in DOMAIN dbt2_user :
        dbt2_user[p].total_processing_time = SumTimes(dbt3_file, p)

RECURSIVE EndSum(_)
EndSum(S) ==
    IF S = {} THEN Zero
    ELSE LET s == CHOOSE x \in S : TRUE
             rest == EndSum(S \ {s})
         IN [s |-> s.a * CopiesIn(s, pending) + rest.s,
             f |-> s.b * CopiesIn(s, pending) + rest.f]

\* outcomes passed to the end calls for p whose UPDATE has not run yet
InFlightEnd(p) == EndSum({s \in BagToSet(pending) : s.op \in EndOps /\ s.pos = p})

\* C6: no counter update of concurrently completing files is lost: an entry's
\* treated and not-treated counters are exactly the successes and failures
\* passed to the updateUserExtractionEnd / updateUserExtractionEndBulk calls
\* whose UPDATE has run (calls the storage rejected left aside).
C6_NoLostCounterUpdate ==
    \A p \in DOMAIN dbt2_user :
        /\ dbt2_user[p].total_files_treated
              = endCalls[p].s - endLost[p].s - InFlightEnd(p).s
        /\ dbt2_user[p].total_files_not_treated
              = endCalls[p].f - endLost[p].f - InFlightEnd(p).f

\* two single uploads of one entry have both reported their outcome
C6_Witness ==
    /\ \E i \in Uploads, j \in Uploads :
          /\ i # j /\ reqs[i].kind = "upload" /\ reqs[j].kind = "upload"
          /\ reqs[i].pos = 1 /\ reqs[j].pos = 1
          /\ reqs[i].fid # 0 /\ reqs[j].fid # 0
    /\ 1 \in DOMAIN dbt2_user
    /\ dbt2_user[1].total_files_treated + dbt2_user[1].total_files_not_treated = 2

\* the upload requests that name queue position p
UploadsAt(p) == {i \in Uploads : reqs[i].pos = p}

\* C7: after a bulk upload into an entry whose counters were zero, in which k
\* files succeeded and m failed (the results pushed: sc, fc), the entry has
\* treated = k, not treated = m and uploaded >= k + m.
C7_BulkCounts ==
    Quiet => \A r \in Uploads :
        (/\ reqs[r].kind = "bulk" /\ reqs[r].status = 200
         /\ reqs[r].pos \in DOMAIN dbt2_user
         /\ UploadsAt(reqs[r].pos) = {r})
        => LET row == dbt2_user[reqs[r].pos] IN
           /\ row.total_files_treated = reqs[r].sc
           /\ row.total_files_not_treated = reqs[r].fc
           /\ row.total_files_uploaded >= reqs[r].sc + reqs[r].fc

\* C8: every FileRecord's user_queue_position names an existing QueueEntry.
C8_FileHasEntry ==
    \A f \in DOMAIN dbt3_file : dbt3_file[f].user_queue_position \in DOMAIN dbt2_user

States == {"pending", "processing", "success", "failed"}

\* C9: a FileRecord is pending right after it is created, its state is always
\* one of pending, processing, success, failed, and it becomes success or
\* failed only from processing.
C9_Lifecycle ==
    [][/\ \A f \in DOMAIN dbt3_file' :
             /\ dbt3_file'[f].extraction_state \in States
             /\ f \notin DOMAIN dbt3_file => dbt3_file'[f].extraction_state = "pending"
       /\ \A f \in DOMAIN dbt3_file :
             (Terminal(dbt3_file'[f])
                 /\ dbt3_file'[f].extraction_state # dbt3_file[f].extraction_state)
             => dbt3_file[f].extraction_state = "processing"]_vars

\* C10: a FileRecord is success or failed exactly when its end timestamp and
\* its processing time are set, and then the processing time is
\* end - start >= 0: updateFileAfterOCR sets the three together.
C10_CompletionIsAtomic ==
    \A f \in DOMAIN dbt3_file :
        LET row == dbt3_file[f] IN
        /\ Terminal(row) <=> row.extraction_end_timestamp # Null
        /\ Terminal(row) <=> row.file_processing_time # Null
        /\ Terminal(row) =>
              /\ row.file_processing_time
                    = row.extraction_end_timestamp - row.extraction_start_timestamp
              /\ row.file_processing_time >= 0

\* a file was completed a second after its record was added
C10_Witness ==
    \E f \in DOMAIN dbt3_file :
        /\ dbt3_file[f].extraction_state = "success"
        /\ dbt3_file[f].file_processing_time = 1
        /\ dbt3_file[f].extraction_end_timestamp = 1

\* C11: every FileRecord an upload created reaches success or failed once the
\* OCR has returned or thrown and the statements handed to the database have
\* run: when nothing is in flight any more, no record is left in processing
\* (a record left then stays as it is for ever), and no record is removed.
C11_EveryFileCompletes ==
    Quiet => \A f \in DOMAIN dbt3_file : Terminal(dbt3_file[f])

\* C12: a FileRecord is failed only when Tesseract.recognize itself threw for
\* that file; a file for which it returned normally is never marked failed.
C12_FailedOnlyOnEngineError ==
    \A f \in DOMAIN dbt3_file :
        dbt3_file[f].extraction_state = "failed" => (f \in DOMAIN ocr /\ ocr[f] = "error")

\* the files of entry p for which recognize reported one of the outcomes
OcrAt(p, outcomes) == {f \in FilesAt(p) : f \in DOMAIN ocr /\ ocr[f] \in outcomes}

\* C13: a file whose OCR returned empty or white-space text is never marked
\* failed, and once nothing is in flight it is success, carries the
\* empty_document name and is counted as treated by its entry.
C13_EmptyTextIsSuccess ==
    /\ \A f \in DOMAIN ocr :
          ocr[f] \in {"empty", "blank"} => dbt3_file[f].extraction_state # "failed"
    /\ Quiet =>
          /\ \A f \in DOMAIN ocr : ocr[f] \in {"empty", "blank"} =>
                /\ dbt3_file[f].extraction_state = "success"
                /\ dbt3_file[f].ai_file_name = "empty_document"
          /\ \A p \in DOMAIN dbt2_user :
                dbt2_user[p].total_files_treated
                    >= Cardinality(OcrAt(p, {"empty", "blank"}))

\* C14: a file for which the OCR engine reported an error never gets a
\* synthesized name, and once nothing is in flight it is failed with
\* detected_language 'unknown' and is counted by its entry as not treated and
\* not as treated.
C14_EngineErrorIsFailed ==
    /\ \A f \in DOMAIN ocr : ocr[f] = "error" => dbt3_file[f].ai_file_name = "processing"
    /\ Quiet =>
          /\ \A f \in DOMAIN ocr : ocr[f] = "error" =>
                /\ dbt3_file[f].extraction_state = "failed"
                /\ dbt3_file[f].detected_language = "unknown"
          /\ \A p \in DOMAIN dbt2_user :
                /\ dbt2_user[p].total_files_not_treated
                      >= Cardinality(OcrAt(p, {"error"}))
                /\ dbt2_user[p].total_files_treated
                      <= Cardinality(FilesAt(p) \ OcrAt(p, {"error"}))

\* C15: a storage error in a counter update reaches the caller: an upload
\* request that is the only one of its entry does not report success (200)
\* when the UPDATE of its updateUserExtractionEnd[Bulk] call was rejected.
C15_StorageErrorPropagates ==
    \A r \in Uploads :
        (reqs[r].status = 200 /\ UploadsAt(reqs[r].pos) = {r})
            => endLost[reqs[r].pos] = Zero

\* the statement s leaves the queue in this step
Leaves(s) == CopiesIn(s, pending') < CopiesIn(s, pending)

Busy(r) == IF reqs[r].pc \in {"addFile", "ocr"} THEN 1 ELSE 0

RECURSIVE SumUploaded(_)
SumUploaded(P) ==
    IF P = {} THEN 0
    ELSE LET p == CHOOSE x \in P : TRUE
         IN dbt2_user[p].total_files_uploaded + SumUploaded(P \ {p})

\* C18: when nothing is in flight, the aggregate total_files_uploaded equals
\* the sum of total_files_uploaded over the QueueEntries and equals the number
\* of FileRecords.
C18_FileCountersAgree ==
    Quiet =>
        /\ dbt1_developer.total_files_uploaded = SumUploaded(DOMAIN dbt2_user)
        /\ dbt1_developer.total_files_uploaded = Len(dbt3_file)

\* C19: when nothing is in flight, the aggregate total_number_of_users equals
\* the number of QueueEntries created, however the session requests interleave.
C19_UserCounterAgrees ==
    Quiet => dbt1_developer.total_number_of_users = Cardinality(DOMAIN dbt2_user)

\* the record is as addFile inserted it
Untouched(row) ==
    /\ row.extraction_state = "processing"
    /\ row.ai_file_name = "processing"
    /\ row.detected_language = ""
    /\ row.extraction_end_timestamp = Null
    /\ row.file_processing_time = Null

\* C20: a FileRecord is written once after its creation: a step that changes
\* a record changes one that nothing has written since addFile inserted it.
C20_WrittenOnce ==
    [][\A f \in DOMAIN dbt3_file :
          dbt3_file'[f] # dbt3_file[f] => Untouched(dbt3_file[f])]_vars

RECURSIVE SumDurations(_, _)
SumDurations(files, pos) ==
    IF files = << >> THEN 0
    ELSE (IF /\ Head(files).user_queue_position = pos
             /\ Head(files).file_processing_time # Null
          THEN Head(files).file_processing_time ELSE 0)
         + SumDurations(Tail(files), pos)

\* the statement s is handed to the database in this step
Arrives(s) == CopiesIn(s, pending') > CopiesIn(s, pending)

\* C21: the recomputation of total_processing_time is a full re-aggregation:
\* the total a recomputation writes is the sum it read, which depends on the
\* entry's FileRecords alone, so repeating it over unchanged FileRecords
\* writes the same total again, and however often an outcome is reported no
\* file's duration is counted twice.
C21_RecomputationIsIdempotent ==
    [][/\ \A s \in BagToSet(pending') :
             (s.op = "setTotalProcessingTime" /\ Arrives(s))
             => s.a = SumTimes(dbt3_file, s.pos)
       /\ \A s \in BagToSet(pending) :
             (/\ s.op = "setTotalProcessingTime" /\ Leaves(s)
              /\ faults' = faults /\ s.pos \in DOMAIN dbt2_user)
             => /\ dbt2_user'[s.pos].total_processing_time = s.a
                /\ (/\ s.a = SumTimes(dbt3_file, s.pos)
                    /\ dbt2_user[s.pos].total_processing_time = s.a)
                   => dbt2_user' = dbt2_user
       /\ \A p \in DOMAIN dbt2_user :
             dbt2_user'[p].total_processing_time <= SumDurations(dbt3_file', p)]_vars

\* the outcome of one file was reported twice (success, then failed after the
\* output could not be written), both recomputations have run and the file's
\* duration is in the total once
C21_Witness ==
    /\ Quiet
    /\ 1 \in DOMAIN dbt2_user
    /\ Cardinality(FilesAt(1)) = 1
    /\ dbt2_user[1].total_files_treated = 1
    /\ dbt2_user[1].total_files_not_treated = 1
    /\ dbt2_user[1].total_processing_time = 1
    /\ \A f \in FilesAt(1) : dbt3_file[f].extraction_state = "success"

\* C22: queue-position tokens are monotonic: a token handed out by
\* getNextUserPosition is strictly larger than every token handed out before,
\* also when the earlier allocation was not followed by a successful createUser.
C22_TokensMonotonic ==
    [][\A i \in Sessions :
          (reqs[i].pos = NoPos /\ reqs'[i].pos # NoPos)
          => \A j \in Handed : reqs'[i].pos > reqs[j].pos]_vars

\* C29: the output of sanitizeFileName has no character outside letters,
\* digits, '_' and '-', no two underscores in a row, no underscore at its
\* start or end and at most 50 characters; it is 'unnamed' exactly when
\* nothing but underscores would be left of the input; and sanitizing the
\* output again gives the output.
C29_SanitizedShape ==
    \A c \in CallsOf("sanitizeFileName") :
        LET r == c.result IN
        /\ CharsOf(r) \subseteq NameChar
        /\ \A i \in 1..(Len(r) - 1) : ~(Ch(r, i) = "_" /\ Ch(r, i + 1) = "_")
        /\ Ch(r, 1) # "_" /\ Ch(r, Len(r)) # "_"
        /\ Len(r) >= 1 /\ Len(r) <= NameLimit
        /\ (r = "unnamed") <=> (CharsOf(c.text) \cap (NameChar \ {"_"}) = {})
        /\ sanitizeFileName(r) = r

\* C30: extractKeywords returns at most 5 different words of its text, none
\* of 3 letters or fewer, none a stop word, a more frequent word before a
\* less frequent one and, of two equally frequent words, the one that comes
\* first in the text first; it returns no keyword for an empty or blank text.
C30_KeywordsRanked ==
    \A c \in CallsOf("extractKeywords") :
        LET r == c.result
            words == MatchWords(ToLowerCase(c.text))
            Frequency(w) == Cardinality({i \in DOMAIN words : words[i] = w})
            FirstOccurrence(w) ==
                CHOOSE i \in DOMAIN words :
                    words[i] = w /\ \A j \in 1..(i - 1) : words[j] # w
        IN /\ Len(r) <= MaxKeywords
           /\ \A i, j \in DOMAIN r : r[i] = r[j] => i = j
           /\ \A i \in DOMAIN r :
                 /\ Len(r[i]) > MinWordLength
                 /\ r[i] \notin stopWords
                 /\ Frequency(r[i]) > 0
           /\ \A i \in 1..(Len(r) - 1) :
                 \/ Frequency(r[i]) > Frequency(r[i + 1])
                 \/ /\ Frequency(r[i]) = Frequency(r[i + 1])
                    /\ FirstOccurrence(r[i]) < FirstOccurrence(r[i + 1])
           /\ Trim(c.text) = "" => r = << >>

\* C26: detectDocumentType returns the label of the first rule, in the order
\* invoice, receipt, contract, letter, report, certificate, form, memo, id,
\* ticket, whose condition the text satisfies, and 'document' when none
\* does; a text with invoice and contract vocabulary is an invoice; the
\* result is always one of the 11 labels.
C26_FirstRuleWins ==
    \A c \in CallsOf("detectDocumentType") :
        LET RuleOrder == <<"invoice", "receipt", "contract", "letter", "report",
                           "certificate", "form", "memo", "id", "ticket">>
            met == {i \in DOMAIN RuleOrder : Condition(RuleOrder[i], c.text)}
        IN /\ met = {} => c.result = "document"
           /\ met # {} =>
                 \E i \in met : c.result = RuleOrder[i] /\ \A j \in met : i <= j
           /\ (Condition("invoice", c.text) /\ Condition("contract", c.text))
                 => c.result = "invoice"
           /\ c.result \in {RuleOrder[i] : i \in DOMAIN RuleOrder} \cup {"document"}

C26_Witness ==
    \E c \in CallsOf("detectDocumentType") :
        /\ Condition("invoice", c.text)
        /\ Condition("contract", c.text)
        /\ Condition("memo", c.text)
        /\ c.result = "invoice"

\* the name that a call of generateAIFileName returned, without the
\* timestamp and the extension that end it
NameOf(c) ==
    LET stamp == IF Trim(c.text[1]) = "" THEN Len(ToString(c.at)) ELSE 19
    IN SubSeq(c.result, 1, Len(c.result) - Len(c.text[2]) - stamp - 1)

\* C23: two calls of generateAIFileName never return the same file name, not
\* even for the same text and extension within one second of the clock.
C23_FileNamesUnique ==
    \A i, j \in DOMAIN calls :
        (i < j /\ calls[i].fn = "generateAIFileName" /\ calls[j].fn = "generateAIFileName")
            => calls[i].result # calls[j].result

\* C24 as stated: the synthesized name has only the characters a-z, 0-9, '_'
\* and '-', and 1 to 50 of them.
C24_LowerCaseName ==
    \A c \in CallsOf("generateAIFileName") :
        /\ CharsOf(NameOf(c)) \subseteq Lower \cup Digit \cup {"_", "-"}
        /\ Len(NameOf(c)) >= 1 /\ Len(NameOf(c)) <= NameLimit

\* C24 amended: the synthesized name has only letters of either case,
\* digits, '_' and '-', and 1 to 50 of them.
C24_NameOfLettersAndDigits ==
    \A c \in CallsOf("generateAIFileName") :
        /\ CharsOf(NameOf(c)) \subseteq Lower \cup Upper \cup Digit \cup {"_", "-"}
        /\ Len(NameOf(c)) >= 1 /\ Len(NameOf(c)) <= NameLimit

C24_Witness ==
    \E c \in CallsOf("generateAIFileName") :
        /\ Len(NameOf(c)) = NameLimit
        /\ CharsOf(NameOf(c)) \cap Upper # {}
        /\ CharsOf(c.text[1]) \ NameChar # {}

\* C25: for every text, an empty or blank one too, generateAIFileName returns
\* a file name: a synthesized part that is not empty, then '_', the time of
\* the call and the extension.
C25_NamingIsTotal ==
    \A c \in CallsOf("generateAIFileName") :
        /\ NameOf(c) # ""
        /\ Len(c.result) > Len(NameOf(c)) + Len(c.text[2]) + 1
        /\ Ch(c.result, Len(NameOf(c)) + 1) = "_"
        /\ From(c.result, Len(c.result) - Len(c.text[2]) + 1) = c.text[2]

C25_Witness ==
    /\ Len(calls) = 2
    /\ calls[1].fn = "generateAIFileName" /\ calls[2].fn = "generateAIFileName"
    /\ calls[1].text[1] = " \n " /\ NameOf(calls[1]) = "empty_document"
    /\ calls[2].text[1] = "!!!!" /\ NameOf(calls[2]) = "unnamed"

\* C27: identifyTopic takes the parts that are present in the order document
\* type (left out when 'document'), company, subject, date, amount, and when
\* there is one returns the first 4 joined by '_': with the five present the
\* amount is dropped, without a subject the other four are kept.
C27_PartsInOrder ==
    \A c \in CallsOf("identifyTopic") :
        LET textLower == ToLowerCase(c.text)
            docType == detectDocumentType(textLower)
            context == extractContext(c.text, textLower, docType)
            present == SelectSeq(<<IF docType = "document" THEN "" ELSE docType,
                                   context.company, context.subject,
                                   context.date, context.amount>>,
                                 LAMBDA part : part # "")
        IN /\ present # << >> => c.result = Join(Slice(present, 4), "_")
           /\ Len(present) = 5 =>
                 c.result = docType \o "_" \o context.company \o "_"
                                \o context.subject \o "_" \o context.date
           /\ (Len(present) = 4 /\ context.subject = "" /\ docType # "document") =>
                 c.result = docType \o "_" \o context.company \o "_"
                                \o context.date \o "_" \o context.amount

C27_Witness ==
    \E c \in CallsOf("identifyTopic") :
        LET context == extractContext(c.text, ToLowerCase(c.text), "invoice")
        IN /\ detectDocumentType(ToLowerCase(c.text)) = "invoice"
           /\ context.company # "" /\ context.subject # ""
           /\ context.date # "" /\ context.amount # ""
           /\ c.result = "invoice_" \o context.company \o "_" \o context.subject
                             \o "_" \o context.date

C31_IncrementThenRecompute ==
    [][\A p \in Positions :
          LET recompute == S0("updateUserTotalProcessingTime", p)
              ends == {s \in BagToSet(pending) :
                          /\ s.op \in {"updateUserExtractionEnd", "updateUserExtractionEndBulk"}
                          /\ s.pos = p
                          /\ CopiesIn(s, pending') < CopiesIn(s, pending)}
          IN /\ CopiesIn(recompute, pending') > CopiesIn(recompute, pending) =>
                   \E s \in ends :
                      /\ faults' = faults
                      /\ dbt2_user' = UpdateUser(p, ExtractionEndRow(UserRow(p), s.a, s.b))
             /\ \A s \in ends :
                   faults' > faults =>
                      /\ CopiesIn(recompute, pending') = CopiesIn(recompute, pending)
                      /\ dbt2_user' = dbt2_user
                      /\ endLost' = AddEnd(endLost, p, s.a, s.b)]_vars

C31_Witness ==
    \E p \in DOMAIN dbt2_user :
        /\ S0("updateUserTotalProcessingTime", p) \in BagToSet(pending)
        /\ dbt2_user[p].total_files_treated + dbt2_user[p].total_files_not_treated > 0
        /\ endCalls[p] # Zero

\* C32: detectDocumentType returns receipt only when the text has both
\* receipt vocabulary and a monetary pattern, and form only when it has both
\* form vocabulary and personal-data-field vocabulary; a text with only one
\* half of such a rule, and that no earlier rule takes, gets the label of the
\* first later rule it satisfies, or 'document'.
C32_BothHalves ==
    \A c \in CallsOf("detectDocumentType") :
        LET vocabulary == Matches(c.text, {"receipt", "paid", "transaction",
                                           "purchase", "sale"})
            money == HasPrice(c.text)
            formWords == Matches(c.text, {"form", "application", "questionnaire",
                                          "survey"})
            fields == Matches(c.text, {"name", "address", "date", "signature"})
            FirstOf(labels) ==
                LET met == {i \in DOMAIN labels : Condition(labels[i], c.text)}
                IN IF met = {} THEN "document"
                   ELSE labels[CHOOSE i \in met : \A j \in met : i <= j]
        IN /\ c.result = "receipt" => (vocabulary /\ money)
           /\ c.result = "form" => (formWords /\ fields)
           /\ (vocabulary # money /\ ~Condition("invoice", c.text)) =>
                 /\ c.result # "receipt"
                 /\ c.result = FirstOf(<<"contract", "letter", "report", "certificate",
                                         "form", "memo", "id", "ticket">>)
           /\ (/\ formWords # fields
               /\ \A label \in {"invoice", "receipt", "contract", "letter", "report",
                                "certificate"} : ~Condition(label, c.text)) =>
                 /\ c.result # "form"
                 /\ c.result = FirstOf(<<"memo", "id", "ticket">>)

C32_Witness ==
    \E c \in CallsOf("detectDocumentType") :
        /\ Matches(c.text, {"receipt", "paid", "transaction", "purchase", "sale"})
        /\ ~HasPrice(c.text)
        /\ Matches(c.text, {"form", "application", "questionnaire", "survey"})
        /\ ~Matches(c.text, {"name", "address", "date", "signature"})
        /\ c.result = "memo"

\* C33: extractContext sets the amount only when the document type it is
\* given is invoice or receipt: for every other type the context has no
\* amount, whatever the text contains.
C33_AmountOnlyForInvoiceOrReceipt ==
    \A c \in CallsOf("extractContext") :
        c.text[2] \notin {"invoice", "receipt"} => c.result.amount = ""

C33_Witness ==
    \E c \in CallsOf("extractContext") :
        /\ c.text[2] = "memo"
        /\ \E i \in 1..Len(c.text[1]) : AmountAt(c.text[1], i) = {"12.50"}
        /\ c.result.amount = ""

\* C34: extractContext takes the first line of more than 3 characters as the
\* subject only when neither a subject nor a company was matched, and only
\* when the trimmed line is longer than 3 and shorter than 50 characters (it
\* is then sanitized and cut at 30); when a company or a subject was matched
\* the subject is the matched one, or none.
C34_TitleOnlyWithoutSubjectAndCompany ==
    \A c \in CallsOf("extractContext") :
        LET text == c.text[1]
            company == \E i \in 1..Len(text) : CompanyAt(text, i) # {}
            subject == \E i \in 1..Len(text) : SubjectAt(text, i) # {}
            lines == SelectSeq(Split(text, "\n"), LAMBDA l : Len(Trim(l)) > 3)
            title == IF lines = << >> THEN "" ELSE Trim(lines[1])
        IN /\ subject =>
                 c.result.subject =
                     NamePart(Leftmost({<<i, SubjectAt(text, i)>> : i \in 1..Len(text)}))
           /\ (company /\ ~subject) => c.result.subject = ""
           /\ (~company /\ ~subject) =>
                 /\ c.result.subject # "" <=> (Len(title) > 3 /\ Len(title) < 50)
                 /\ c.result.subject # "" =>
                       c.result.subject = Substring(sanitizeFileName(title), 30)

C34_Witness ==
    \E c \in CallsOf("extractContext") :
        /\ c.text[1] = "From: Acme Corp.\nHello there"
        /\ c.result.company # ""
        /\ c.result.subject = ""
        /\ Len(Trim(Split(c.text[1], "\n")[1])) \in 4..49

\* C35: when nothing is in flight, every QueueEntry's total_files_treated is
\* the number of its FileRecords in state success and its
\* total_files_not_treated the number of its FileRecords in state failed.
C35_CountersMatchRecords ==
    Quiet => \A p \in DOMAIN dbt2_user :
        /\ dbt2_user[p].total_files_treated =
              Cardinality({f \in FilesAt(p) : dbt3_file[f].extraction_state = "success"})
        /\ dbt2_user[p].total_files_not_treated =
              Cardinality({f \in FilesAt(p) : dbt3_file[f].extraction_state = "failed"})

\* C36: however the session requests race, the stored queue positions are
\* those of the requests answered 200, each of a different request; and when
\* createUser fails, because the token is already stored or because the
\* storage rejects the INSERT, the request is answered 500, no QueueEntry is
\* added and total_number_of_users is not incremented.
C36_StoredPositionsUnique ==
    [][LET created == {i \in DOMAIN reqs' :
                          reqs'[i].kind = "session" /\ reqs'[i].status = 200}
           increment == Stmt("incrementUserCount", 0, NoPos, 0, 0, 0, "", "")
           inserts == {s \in Queued("createUser") :
                          CopiesIn(s, pending') < CopiesIn(s, pending)}
       IN /\ \A i, j \in created : i # j => reqs'[i].pos # reqs'[j].pos
          /\ DOMAIN dbt2_user' = {reqs'[i].pos : i \in created}
          /\ \A s \in inserts :
                (s.pos \in DOMAIN dbt2_user \/ faults' > faults) =>
                   /\ reqs'[s.req].pc = "done"
                   /\ reqs'[s.req].status = 500
                   /\ dbt2_user' = dbt2_user
                   /\ dbt1_developer' = dbt1_developer
                   /\ CopiesIn(increment, pending') = CopiesIn(increment, pending)]_vars

C36_Witness ==
    \E i, j \in Sessions :
        /\ reqs[i].status = 200
        /\ reqs[j].status = 500
        /\ reqs[i].pos = reqs[j].pos
        /\ faults = 0
        /\ pending = EmptyBag
        /\ DOMAIN dbt2_user = {reqs[i].pos}
        /\ dbt1_developer.total_number_of_users = 1

\* C37: the statements of updateUserStats, updateUserExtractionStart,
\* updateUserExtractionEnd, updateUserExtractionEndBulk and
\* updateUserTotalProcessingTime for a queue position leave every other
\* QueueEntry and every FileRecord as they were, and creates or deletes none;
\* the statement of updateFileAfterOCR for a file id leaves every other
\* FileRecord and every QueueEntry as they were.
C37_Frame ==
    [][\A s \in BagToSet(pending) :
          Leaves(s) =>
             /\ s.op \in {"updateUserStats", "updateUserExtractionStart",
                          "updateUserExtractionEnd", "updateUserExtractionEndBulk",
                          "updateUserTotalProcessingTime", "setTotalProcessingTime"} =>
                   /\ dbt3_file' = dbt3_file
                   /\ DOMAIN dbt2_user' = DOMAIN dbt2_user
                   /\ \A q \in DOMAIN dbt2_user \ {s.pos} : dbt2_user'[q] = dbt2_user[q]
             /\ s.op = "updateFileAfterOCR" =>
                   /\ dbt2_user' = dbt2_user
                   /\ Len(dbt3_file') = Len(dbt3_file)
                   /\ \A g \in DOMAIN dbt3_file \ {s.fid} :
                         dbt3_file'[g] = dbt3_file[g]]_vars

\* the statements of an upload for a position that has no entry have run, the
\* OCR of an upload for user1 has not returned: user1's entry and record are
\* as that upload left them
C37_Witness ==
    \E f, g \in DOMAIN dbt3_file :
        /\ dbt3_file[f].user_queue_position \notin DOMAIN dbt2_user
        /\ dbt3_file[f].extraction_state = "success"
        /\ endCalls[dbt3_file[f].user_queue_position] # Zero
        /\ pending = EmptyBag
        /\ faults = 0
        /\ dbt3_file[g].user_queue_position \in DOMAIN dbt2_user
        /\ Untouched(dbt3_file[g])
        /\ dbt2_user[dbt3_file[g].user_queue_position] =
              [NewUser EXCEPT !.total_files_uploaded = 1,
                              !.extraction_start_timestamp =
                                  dbt3_file[g].extraction_start_timestamp]
====
